---- MODULE Spec2Model ----
(***************************************************************************)
(* LZSS compressor / decompressor of blacktop/lzss (lzss.go).              *)
(*                                                                         *)
(* The encoder state (encodeState) is the record sp; Compress and          *)
(* Decompress are state machines whose program counter is pc.  insertNode, *)
(* deleteNode and one iteration of the decoding loop are operators that    *)
(* the actions apply.                                                      *)
(***************************************************************************)
EXTENDS Integers, Sequences, FiniteSets, TLC

\* ------------------------------------------------------------ constants
n == 4096
f == 18
threshold == 2
nil == n

\* ------------------------------------------------------------ bounds
\* Longest input of the exhaustive input set.
MaxLen == 4
\* Longest input of the exhaustive input set when every call is a step.
MaxCallLen == 2
\* Length of the noisy head of a wrapping input.
NoiseLen == 40
\* Bytes a wrapping input goes on after the head's strings are deleted.
WrapTail == 4
\* Number of wrapping inputs.
WrapSeeds == 1
\* Longest stream given to Decompress alone.
MaxDecLen == 4

\* ------------------------------------------------------------ integers
\* Go's byte(x) conversion.
byte(x) == x % 256

RECURSIVE BitAnd(_, _)
\* x & y on non-negative integers.
BitAnd(x, y) ==
    IF x = 0 \/ y = 0 THEN 0
    ELSE (IF x % 2 = 1 /\ y % 2 = 1 THEN 1 ELSE 0) + 2 * BitAnd(x \div 2, y \div 2)

RECURSIVE BitOr(_, _)
\* x | y on non-negative integers.
BitOr(x, y) ==
    IF x = 0 THEN y
    ELSE IF y = 0 THEN x
    ELSE (IF x % 2 = 1 \/ y % 2 = 1 THEN 1 ELSE 0) + 2 * BitOr(x \div 2, y \div 2)

\* ------------------------------------------------------------ encodeState
\* The zero value of encodeState: what &encodeState{} allocates.
encodeState ==
    [lchild        |-> [x \in 0..n |-> 0],
     rchild        |-> [x \in 0..(n + 256) |-> 0],
     parent        |-> [x \in 0..n |-> 0],
     textBuf       |-> [x \in 0..(n + f - 2) |-> 0],
     matchPosition |-> 0,
     matchLength   |-> 0]

\* A slip in line 80: i < n, the whole ring is filled with spaces.
initState_fill(sp0) ==
    [lchild        |-> [x \in 0..n |-> 0],
     rchild        |-> [x \in 0..(n + 256) |-> IF x >= n + 1 THEN nil ELSE 0],
     parent        |-> [x \in 0..n |-> IF x < n THEN nil ELSE 0],
     textBuf       |-> [x \in 0..(n + f - 2) |-> IF x < n THEN 32 ELSE 0],
     matchPosition |-> 0,
     matchLength   |-> 0]

\* initState: clear, fill the first n-f positions with spaces, roots and
\* parents to nil.
initState(sp0) ==
    [lchild        |-> [x \in 0..n |-> 0],
     rchild        |-> [x \in 0..(n + 256) |-> IF x >= n + 1 THEN nil ELSE 0],
     parent        |-> [x \in 0..n |-> IF x < n THEN nil ELSE 0],
     textBuf       |-> [x \in 0..(n + f - 2) |-> IF x < n - f THEN 32 ELSE 0],
     matchPosition |-> 0,
     matchLength   |-> 0]

RECURSIVE compareLen(_, _, _, _)
\* The inner for loop of insertNode: the value of i when it ends, comparing
\* key[i] with textBuf[p+i] from i on.
compareLen(sp0, r0, p, k) ==
    IF k < f /\ sp0.textBuf[r0 + k] = sp0.textBuf[p + k]
    THEN compareLen(sp0, r0, p, k + 1)
    ELSE k

\* The value of cmp when that loop ends.
compareCmp(sp0, r0, p, k) ==
    IF k < f THEN sp0.textBuf[r0 + k] - sp0.textBuf[p + k] ELSE 0

\* A slip in line 144: the replaced node keeps its parent link.
replaceNode_keep(sp0, r0, p) ==
    LET a == [sp0 EXCEPT !.parent[r0] = sp0.parent[p]]
        b == [a EXCEPT !.lchild[r0] = a.lchild[p]]
        c == [b EXCEPT !.rchild[r0] = b.rchild[p]]
        d == [c EXCEPT !.parent[c.lchild[p]] = r0]
        e == [d EXCEPT !.parent[d.rchild[p]] = r0]
    IN IF e.rchild[e.parent[p]] = p
       THEN [e EXCEPT !.rchild[e.parent[p]] = r0]
       ELSE [e EXCEPT !.lchild[e.parent[p]] = r0]

\* A slip in line 137: the left child of the replaced node is not told of
\* its new parent.
replaceNode_orphan(sp0, r0, p) ==
    LET a == [sp0 EXCEPT !.parent[r0] = sp0.parent[p]]
        b == [a EXCEPT !.lchild[r0] = a.lchild[p]]
        c == [b EXCEPT !.rchild[r0] = b.rchild[p]]
        e == [c EXCEPT !.parent[c.rchild[p]] = r0]
        g == IF e.rchild[e.parent[p]] = p
             THEN [e EXCEPT !.rchild[e.parent[p]] = r0]
             ELSE [e EXCEPT !.lchild[e.parent[p]] = r0]
    IN [g EXCEPT !.parent[p] = nil]

\* Lines 134-144 of insertNode: r0 takes the place of p.
replaceNode(sp0, r0, p) ==
    LET a == [sp0 EXCEPT !.parent[r0] = sp0.parent[p]]
        b == [a EXCEPT !.lchild[r0] = a.lchild[p]]
        c == [b EXCEPT !.rchild[r0] = b.rchild[p]]
        d == [c EXCEPT !.parent[c.lchild[p]] = r0]
        e == [d EXCEPT !.parent[d.rchild[p]] = r0]
        g == IF e.rchild[e.parent[p]] = p
             THEN [e EXCEPT !.rchild[e.parent[p]] = r0]
             ELSE [e EXCEPT !.lchild[e.parent[p]] = r0]
    IN [g EXCEPT !.parent[p] = nil]

RECURSIVE insertLoop_last(_, _, _, _)
\* A slip in line 127: i >= matchLength, so that a later node of the walk
\* with an equal match takes the report.
insertLoop_last(sp0, r0, p, cmp) ==
    LET child == IF cmp >= 0 THEN sp0.rchild[p] ELSE sp0.lchild[p]
    IN IF child = nil
       THEN IF cmp >= 0
            THEN [sp0 EXCEPT !.rchild[p] = r0, !.parent[r0] = p]
            ELSE [sp0 EXCEPT !.lchild[p] = r0, !.parent[r0] = p]
       ELSE LET k    == compareLen(sp0, r0, child, 1)
                cmp2 == compareCmp(sp0, r0, child, k)
            IN IF k >= sp0.matchLength
               THEN LET sp1 == [sp0 EXCEPT !.matchPosition = child,
                                           !.matchLength = k]
                    IN IF k >= f
                       THEN replaceNode(sp1, r0, child)
                       ELSE insertLoop_last(sp1, r0, child, cmp2)
               ELSE insertLoop_last(sp0, r0, child, cmp2)

RECURSIVE insertLoop(_, _, _, _)
\* The for loop of insertNode, entered with the node p and the sign cmp.
insertLoop(sp0, r0, p, cmp) ==
    LET child == IF cmp >= 0 THEN sp0.rchild[p] ELSE sp0.lchild[p]
    IN IF child = nil
       THEN IF cmp >= 0
            THEN [sp0 EXCEPT !.rchild[p] = r0, !.parent[r0] = p]
            ELSE [sp0 EXCEPT !.lchild[p] = r0, !.parent[r0] = p]
       ELSE LET k    == compareLen(sp0, r0, child, 1)
                cmp2 == compareCmp(sp0, r0, child, k)
            IN IF k > sp0.matchLength
               THEN LET sp1 == [sp0 EXCEPT !.matchPosition = child,
                                           !.matchLength = k]
                    IN IF k >= f
                       THEN replaceNode(sp1, r0, child)
                       ELSE insertLoop(sp1, r0, child, cmp2)
               ELSE insertLoop(sp0, r0, child, cmp2)

\* insertNode(r): insert the string at r0 into the tree of its first byte.
insertNode(sp0, r0) ==
    LET sp1 == [sp0 EXCEPT !.rchild[r0] = nil, !.lchild[r0] = nil,
                           !.matchLength = 0]
    IN insertLoop(sp1, r0, n + 1 + sp0.textBuf[r0], 1)

RECURSIVE rightmost(_, _)
\* for sp.rchild[q] != nil { q = sp.rchild[q] }
rightmost(sp0, q) ==
    IF sp0.rchild[q] # nil THEN rightmost(sp0, sp0.rchild[q]) ELSE q

\* A slip in lines 160-163: no descent to the right, the left child of p
\* takes its place whatever it has on its right.
deleteTwo_left(sp0, p) ==
    LET q0 == sp0.lchild[p]
        e  == [sp0 EXCEPT !.rchild[q0] = sp0.rchild[p]]
    IN <<[e EXCEPT !.parent[e.rchild[p]] = q0], q0>>

\* Lines 159-170 of deleteNode: p has two children; the pair <<state, q>>.
deleteTwo(sp0, p) ==
    LET q0 == sp0.lchild[p]
    IN IF sp0.rchild[q0] # nil
       THEN LET q == rightmost(sp0, q0)
                a == [sp0 EXCEPT !.rchild[sp0.parent[q]] = sp0.lchild[q]]
                b == [a EXCEPT !.parent[a.lchild[q]] = a.parent[q]]
                c == [b EXCEPT !.lchild[q] = b.lchild[p]]
                d == [c EXCEPT !.parent[c.lchild[p]] = q]
                e == [d EXCEPT !.rchild[q] = d.rchild[p]]
            IN <<[e EXCEPT !.parent[e.rchild[p]] = q], q>>
       ELSE LET e == [sp0 EXCEPT !.rchild[q0] = sp0.rchild[p]]
            IN <<[e EXCEPT !.parent[e.rchild[p]] = q0], q0>>

\* deleteNode(p): delete node p from its tree.
deleteNode(sp0, p) ==
    IF sp0.parent[p] = nil THEN sp0
    ELSE LET t == IF sp0.rchild[p] = nil THEN <<sp0, sp0.lchild[p]>>
                  ELSE IF sp0.lchild[p] = nil THEN <<sp0, sp0.rchild[p]>>
                  ELSE deleteTwo(sp0, p)
             a == t[1]
             q == t[2]
             b == [a EXCEPT !.parent[q] = a.parent[p]]
             c == IF b.rchild[b.parent[p]] = p
                  THEN [b EXCEPT !.rchild[b.parent[p]] = q]
                  ELSE [b EXCEPT !.lchild[b.parent[p]] = q]
         IN [c EXCEPT !.parent[p] = nil]

\* ------------------------------------------------------------ Compress
\* Compress's locals when the function is entered with src0: Go's zero
\* values (sp is what &encodeState{} allocates, dst the empty bytes.Buffer).
\* tokens is a log, not a local: what each iteration of the encoding loop
\* sent (see emitToken).
compressEntry(src0) ==
    [src             |-> src0,
     sp              |-> encodeState,
     srcPos          |-> 0,
     dataLen         |-> 0,
     r               |-> 0,
     s               |-> 0,
     i               |-> 0,
     lastMatchLength |-> 0,
     codeBuf         |-> [x \in 0..16 |-> 0],
     codeBufPtr      |-> 0,
     mask            |-> 0,
     dst             |-> <<>>,
     tokens          |-> <<>>]

\* min(f, len(src)): the bytes the first read loop (lines 207-210) takes.
firstRead(e) == IF Len(e.src) < f THEN Len(e.src) ELSE f

\* Lines 187-213: initState, the code buffer, s and r, and the first F bytes
\* into the last F bytes of the buffer.
compressBegin(e) ==
    LET sp1 == initState(e.sp)
    IN [e EXCEPT
          !.sp = [sp1 EXCEPT !.textBuf =
                    [x \in 0..(n + f - 2) |->
                        IF x >= n - f /\ x < n - f + firstRead(e)
                        THEN e.src[x - (n - f) + 1]
                        ELSE sp1.textBuf[x]]],
          !.codeBuf[0] = 0,
          !.codeBufPtr = 1,
          !.mask = 1,
          !.s = 0,
          !.r = n - f,
          !.dataLen = firstRead(e),
          !.srcPos = firstRead(e),
          !.i = 1]

\* Lines 216-218, one iteration: insert a string that begins with spaces.
initInsert(e) ==
    [e EXCEPT !.sp = insertNode(e.sp, e.r - e.i), !.i = e.i + 1]

\* Line 221: insert the whole string just read.
insertWhole(e) == [e EXCEPT !.sp = insertNode(e.sp, e.r)]

\* Lines 225-227: match_length may be spuriously long near the end of text.
clamp(e) ==
    IF e.sp.matchLength > e.dataLen
    THEN [e EXCEPT !.sp.matchLength = e.dataLen]
    ELSE e

\* A slip in line 237: the length stored without the bias of threshold+1.
lengthByte_unbiased(matchPosition, matchLength) ==
    byte(BitOr(BitAnd(matchPosition \div 16, 240), matchLength - threshold))

\* A slip in line 237: the high bits of the position shifted by 8, not 4.
lengthByte_shift8(matchPosition, matchLength) ==
    byte(BitOr(BitAnd(matchPosition \div 256, 240),
               matchLength - (threshold + 1)))

\* Line 237: the second byte of a position and length pair.
lengthByte(matchPosition, matchLength) ==
    byte(BitOr(BitAnd(matchPosition \div 16, 240),
               matchLength - (threshold + 1)))

\* A slip in line 229: match_length is not set to 1 for a byte sent uncoded.
sendCode_unforced(e) ==
    IF e.sp.matchLength <= threshold
    THEN [e EXCEPT !.codeBuf[0] = BitOr(e.codeBuf[0], e.mask),
                   !.codeBuf[e.codeBufPtr] = e.sp.textBuf[e.r],
                   !.codeBufPtr = e.codeBufPtr + 1]
    ELSE [e EXCEPT !.codeBuf[e.codeBufPtr] = byte(e.sp.matchPosition),
                   !.codeBuf[e.codeBufPtr + 1] =
                       lengthByte(e.sp.matchPosition, e.sp.matchLength),
                   !.codeBufPtr = e.codeBufPtr + 2]

\* Lines 228-239: one byte uncoded, or a position and length pair.
sendCode(e) ==
    IF e.sp.matchLength <= threshold
    THEN [e EXCEPT !.sp.matchLength = 1,
                   !.codeBuf[0] = BitOr(e.codeBuf[0], e.mask),
                   !.codeBuf[e.codeBufPtr] = e.sp.textBuf[e.r],
                   !.codeBufPtr = e.codeBufPtr + 1]
    ELSE [e EXCEPT !.codeBuf[e.codeBufPtr] = byte(e.sp.matchPosition),
                   !.codeBuf[e.codeBufPtr + 1] =
                       lengthByte(e.sp.matchPosition, e.sp.matchLength),
                   !.codeBufPtr = e.codeBufPtr + 2]

\* codeBuf[0..codeBufPtr-1], as the flush loops write it.
codeBytes(e) == [k \in 1..e.codeBufPtr |-> e.codeBuf[k - 1]]

\* Lines 240-248: shift the mask; after eight tokens send them together.
shiftMask(e) ==
    LET mask1 == byte(e.mask * 2)
    IN IF mask1 = 0
       THEN [e EXCEPT !.dst = e.dst \o codeBytes(e),
                      !.codeBuf[0] = 0,
                      !.codeBufPtr = 1,
                      !.mask = 1]
       ELSE [e EXCEPT !.mask = mask1]

\* What sendCode did to e, giving e0: the match it was given, whether it
\* set the flag bit of this token in codeBuf[0], the bytes it put into the
\* code buffer and the match length it left for the window to advance by.
sentToken(e, e0) ==
    [matchLength   |-> e.sp.matchLength,
     matchPosition |-> e.sp.matchPosition,
     literal       |-> BitAnd(e0.codeBuf[0], e.mask) # 0,
     code          |-> [k \in 1..(e0.codeBufPtr - e.codeBufPtr) |->
                           e0.codeBuf[e.codeBufPtr + k - 1]],
     advance       |-> e0.sp.matchLength]

\* Lines 228-250: send one token; lastMatchLength, and i = 0 for the loops.
emitToken(e) ==
    LET e0 == sendCode(e)
        e1 == shiftMask(e0)
    IN [e1 EXCEPT !.lastMatchLength = e1.sp.matchLength,
                  !.i = 0,
                  !.tokens = Append(e.tokens, sentToken(e, e0))]

\* Line 250: the condition of the reading loop.
reading(e) == e.i < e.lastMatchLength /\ e.srcPos < Len(e.src)

\* Line 269: the condition of the draining loop.
draining(e) == e.i < e.lastMatchLength

\* Lines 251 and 270: delete the old string.
deleteOld(e) == [e EXCEPT !.sp = deleteNode(e.sp, e.s)]

\* Lines 252-264: read a new byte into the ring buffer (and into its
\* extension when s < f-1), move s and r.
readByte(e) ==
    LET c  == e.src[e.srcPos + 1]
        e1 == [e EXCEPT !.sp.textBuf[e.s] = byte(c), !.srcPos = e.srcPos + 1]
        e2 == IF e.s < f - 1
              THEN [e1 EXCEPT !.sp.textBuf[e.s + n] = byte(c)]
              ELSE e1
    IN [e2 EXCEPT !.s = BitAnd(e.s + 1, n - 1),
                  !.r = BitAnd(e.r + 1, n - 1)]

\* Line 267 and the loop's i++: register the string at r.
readInsert(e) == [e EXCEPT !.sp = insertNode(e.sp, e.r), !.i = e.i + 1]

\* A slip in line 276: dataLen is not counted down.
drainInsert_keep(e) ==
    LET e1 == [e EXCEPT !.s = BitAnd(e.s + 1, n - 1),
                        !.r = BitAnd(e.r + 1, n - 1)]
        e2 == IF e1.dataLen > 0
              THEN [e1 EXCEPT !.sp = insertNode(e1.sp, e1.r)]
              ELSE e1
    IN [e2 EXCEPT !.i = e.i + 1]

\* Lines 273-280: move s and r, count dataLen down, insert while it is > 0.
drainInsert(e) ==
    LET e1 == [e EXCEPT !.s = BitAnd(e.s + 1, n - 1),
                        !.r = BitAnd(e.r + 1, n - 1),
                        !.dataLen = e.dataLen - 1]
        e2 == IF e1.dataLen > 0
              THEN [e1 EXCEPT !.sp = insertNode(e1.sp, e1.r)]
              ELSE e1
    IN [e2 EXCEPT !.i = e.i + 1]

\* A slip in line 287: the code buffer is sent even when it holds no token.
finalFlush_always(e) == [e EXCEPT !.dst = e.dst \o codeBytes(e)]

\* Lines 287-291: send the remaining code.
finalFlush(e) ==
    IF e.codeBufPtr > 1 THEN [e EXCEPT !.dst = e.dst \o codeBytes(e)] ELSE e

RECURSIVE initInsertLoop(_)
\* Lines 216-218: for i = 1; i <= f; i++.
initInsertLoop(e) == IF e.i <= f THEN initInsertLoop(initInsert(e)) ELSE e

RECURSIVE readLoop(_)
\* Lines 250-268.
readLoop(e) ==
    IF reading(e) THEN readLoop(readInsert(readByte(deleteOld(e)))) ELSE e

RECURSIVE drainLoop(_)
\* Lines 269-281.
drainLoop(e) ==
    IF draining(e) THEN drainLoop(drainInsert(deleteOld(e))) ELSE e

\* Lines 187-221: everything before the encoding loop.
compressSetup(e) == insertWhole(initInsertLoop(compressBegin(e)))

\* Lines 224-281: one iteration of the encoding loop.
encodeIteration(e) == drainLoop(readLoop(emitToken(clamp(e))))

\* ------------------------------------------------------------ Decompress
\* Decompress's locals when the function is entered with src0: srcPos, the
\* flags register, the write cursor r, the ring buffer and the output; ret
\* says that the loop has been left and dst returned.  (i, j, k and c are
\* assigned before every use and are not kept between iterations.)
decompressEntry(src0) ==
    [src     |-> src0,
     srcPos  |-> 0,
     flags   |-> 0,
     r       |-> 0,
     textBuf |-> [x \in 0..(n + f - 2) |-> 0],
     dst     |-> <<>>,
     ret     |-> FALSE]

\* A slip in line 311: the write cursor starts at 0.
decompressInit_r0(d) ==
    [d EXCEPT !.srcPos = 0,
              !.textBuf = [x \in 0..(n + f - 2) |-> IF x < n - f THEN 32 ELSE 0],
              !.r = 0,
              !.flags = 0,
              !.dst = <<>>]

\* Lines 300-312: the ring buffer with spaces in its first n-f positions.
decompressInit(d) ==
    [d EXCEPT !.srcPos = 0,
              !.textBuf = [x \in 0..(n + f - 2) |-> IF x < n - f THEN 32 ELSE 0],
              !.r = n - f,
              !.flags = 0,
              !.dst = <<>>]

\* The next source byte (Go indexes src from 0).
srcByte(d) == d.src[d.srcPos + 1]

\* Lines 315-323: shift the flags register, reload it when its counting
\* byte is used up; ret when no byte is left.
loadFlags(d) ==
    LET fl == d.flags \div 2
    IN IF BitAnd(fl, 256) = 0
       THEN IF d.srcPos >= Len(d.src)
            THEN [d EXCEPT !.flags = fl, !.ret = TRUE]
            ELSE [d EXCEPT !.flags = BitOr(srcByte(d), 65280),
                           !.srcPos = d.srcPos + 1]
       ELSE [d EXCEPT !.flags = fl]

\* Lines 330-333: one byte to the output and to the ring buffer.
putByte(d, c) ==
    [d EXCEPT !.dst = Append(d.dst, byte(c)),
              !.textBuf[d.r] = byte(c),
              !.r = BitAnd(d.r + 1, n - 1)]

RECURSIVE copyMatch(_, _, _, _)
\* Lines 347-353: for k = 0; k <= j; k++.
copyMatch(d, pos, j, k) ==
    IF k <= j
    THEN copyMatch(putByte(d, d.textBuf[BitAnd(pos + k, n - 1)]), pos, j, k + 1)
    ELSE d

\* A slip in lines 340-342: a reference cut after its first byte is copied
\* as if its second byte were 0.
decodeToken_cut(d) ==
    IF BitAnd(d.flags, 1) = 1
    THEN IF d.srcPos >= Len(d.src)
         THEN [d EXCEPT !.ret = TRUE]
         ELSE putByte([d EXCEPT !.srcPos = d.srcPos + 1], srcByte(d))
    ELSE IF d.srcPos >= Len(d.src)
         THEN [d EXCEPT !.ret = TRUE]
         ELSE LET lo == srcByte(d)
                  d1 == [d EXCEPT !.srcPos = d.srcPos + 1]
                  hi == IF d1.srcPos >= Len(d1.src) THEN 0 ELSE srcByte(d1)
                  d2 == IF d1.srcPos >= Len(d1.src) THEN d1
                        ELSE [d1 EXCEPT !.srcPos = d1.srcPos + 1]
                  pos == BitOr(lo, BitAnd(hi, 240) * 16)
                  j   == BitAnd(hi, 15) + threshold
              IN copyMatch(d2, pos, j, 0)

\* Lines 324-354: one token.
decodeToken(d) ==
    IF BitAnd(d.flags, 1) = 1
    THEN IF d.srcPos >= Len(d.src)
         THEN [d EXCEPT !.ret = TRUE]
         ELSE putByte([d EXCEPT !.srcPos = d.srcPos + 1], srcByte(d))
    ELSE IF d.srcPos >= Len(d.src)
         THEN [d EXCEPT !.ret = TRUE]
         ELSE LET lo == srcByte(d)
                  d1 == [d EXCEPT !.srcPos = d.srcPos + 1]
              IN IF d1.srcPos >= Len(d1.src)
                 THEN [d1 EXCEPT !.ret = TRUE]
                 ELSE LET hi  == srcByte(d1)
                          d2  == [d1 EXCEPT !.srcPos = d1.srcPos + 1]
                          pos == BitOr(lo, BitAnd(hi, 240) * 16)
                          j   == BitAnd(hi, 15) + threshold
                      IN copyMatch(d2, pos, j, 0)

\* One iteration of the for loop of Decompress (lines 314-355).
decodeLoop(d) ==
    LET d1 == loadFlags(d)
    IN IF d1.ret THEN d1 ELSE decodeToken(d1)

RECURSIVE decodeAll(_)
decodeAll(d) == IF d.ret THEN d ELSE decodeAll(decodeLoop(d))

\* Decompress(src): the bytes returned.
Decompress(src0) == decodeAll(decompressInit(decompressEntry(src0))).dst

\* ------------------------------------------------------------ state
VARIABLES
    pc,     \* where Compress / Decompress stands
    enc,    \* Compress's argument, locals and output
    dec     \* Decompress's argument, locals and output

vars == <<pc, enc, dec>>

\* ------------------------------------------------------------ inputs
\* Byte values of the exhaustive inputs: the unwritten-buffer value, the
\* filler, a letter.
Alphabet == {0, 32, 65}

RECURSIVE SeqsOfLen(_, _)
SeqsOfLen(A, k) ==
    IF k = 0 THEN {<<>>}
    ELSE {Append(q, a) : q \in SeqsOfLen(A, k - 1), a \in A}

SeqsUpTo(A, k) == UNION {SeqsOfLen(A, m) : m \in 0..k}

Repeat(b, k) == [x \in 1..k |-> b]

RECURSIVE Times(_, _)
Times(q, k) == IF k = 0 THEN <<>> ELSE q \o Times(q, k - 1)

\* The inputs of TestCompressDecompressRoundtrip and TestKnownGoodVectors.
short_string == <<72, 101, 108, 108, 111, 44, 32, 87, 111, 114, 108, 100, 33>>
repetitive == Repeat(65, 22)
no_repetition == <<97, 98, 99, 100, 101, 102, 103, 104, 105, 106, 107, 108, 109, 110, 111, 112, 113, 114, 115, 116, 117, 118, 119, 120, 121, 122>>
mixed_content ==
    <<84, 104, 105, 115, 32, 105, 115, 32, 97, 32, 116, 101, 115, 116, 32,
      115, 116, 114, 105, 110, 103, 32, 102, 111, 114, 32,
      76, 90, 83, 83, 32, 99, 111, 109, 112, 114, 101, 115, 115, 105, 111,
      110, 46, 32, 72, 101, 108, 108, 111, 44, 32, 87, 111, 114, 108, 100,
      33, 32, 84, 104, 105, 115, 32, 114, 101, 112, 101, 97, 116, 115, 32,
      116, 111, 32, 116, 101, 115, 116, 32, 99, 111, 109, 112, 114, 101,
      115, 115, 105, 111, 110, 32, 101, 102, 102, 101, 99, 116, 105, 118,
      101, 110, 101, 115, 115, 46>>
binary_data == <<0, 1, 2, 3, 255, 254, 253, 252>>
all_zeros == Repeat(0, 100)
pattern_repeat == Times(<<65, 66, 67, 49, 50, 51>>, 20)
highly_repetitive == Repeat(65, 1000)

TestInputs ==
    {short_string, repetitive, no_repetition, mixed_content, binary_data,
     all_zeros, pattern_repeat, highly_repetitive}

\* A stretch of k bytes over Alphabet without a short period.
Noise(seed, k) ==
    [x \in 1..k |->
        LET v == ((x * x * x + seed * x + seed) % 61) % 3
        IN IF v = 0 THEN 0 ELSE IF v = 1 THEN 32 ELSE 65]

\* Inputs longer than the ring buffer: a noisy head, a run that carries s
\* around the ring to the head's positions, and a noisy tail read while the
\* head's strings are deleted.
WrapInput(seed) ==
    Noise(seed, NoiseLen) \o Repeat(65, n - f - NoiseLen)
        \o Noise(seed + 1, 2 * f + NoiseLen + WrapTail)

WrapInputs == {WrapInput(seed) : seed \in 1..WrapSeeds}

\* F - 1 different letters, a space and the same letters again: the string
\* at the space is the string of the filler before the input, which by then
\* has a child.
LettersTwice ==
    [x \in 1..(2 * f - 1) |-> IF x = f THEN 32 ELSE 65 + ((x - 1) % f)]

Inputs == SeqsUpTo(Alphabet, MaxLen) \cup TestInputs \cup WrapInputs

\* ------------------------------------------------------------ actions
\* Compress(input) is called.
CallCompress(input) ==
    /\ pc = "compress"
    /\ enc = compressEntry(input)
    /\ dec = decompressEntry(<<>>)

Init == \E input \in Inputs : CallCompress(input)

\* A slip in lines 183-185: an empty group is sent for an empty input.
CompressEmpty_group ==
    /\ pc = "compress"
    /\ Len(enc.src) = 0
    /\ enc' = [enc EXCEPT !.dst = <<0>>]
    /\ pc' = "compressed"
    /\ UNCHANGED dec

\* Lines 183-185: empty in, empty out.
CompressEmpty ==
    /\ pc = "compress"
    /\ Len(enc.src) = 0
    /\ pc' = "compressed"
    /\ UNCHANGED <<enc, dec>>

\* Lines 187-213.
CompressBegin ==
    /\ pc = "compress"
    /\ Len(enc.src) # 0
    /\ enc' = compressBegin(enc)
    /\ pc' = "init_insert"
    /\ UNCHANGED dec

\* Lines 216-218, one insertNode call.
InitInsert ==
    /\ pc = "init_insert"
    /\ enc.i <= f
    /\ enc' = initInsert(enc)
    /\ UNCHANGED <<pc, dec>>

\* Line 221.
InsertWhole ==
    /\ pc = "init_insert"
    /\ enc.i > f
    /\ enc' = insertWhole(enc)
    /\ pc' = "clamp"
    /\ UNCHANGED dec

\* Lines 225-227.
Clamp ==
    /\ pc = "clamp"
    /\ enc' = clamp(enc)
    /\ pc' = "emit"
    /\ UNCHANGED dec

\* Lines 228-250.
EmitToken ==
    /\ pc = "emit"
    /\ enc' = emitToken(enc)
    /\ pc' = "advance"
    /\ UNCHANGED dec

\* Line 251.
ReadDelete ==
    /\ pc = "advance"
    /\ reading(enc)
    /\ enc' = deleteOld(enc)
    /\ pc' = "read"
    /\ UNCHANGED dec

\* Lines 252-264.
ReadByte ==
    /\ pc = "read"
    /\ enc' = readByte(enc)
    /\ pc' = "read_insert"
    /\ UNCHANGED dec

\* Line 267.
ReadInsert ==
    /\ pc = "read_insert"
    /\ enc' = readInsert(enc)
    /\ pc' = "advance"
    /\ UNCHANGED dec

\* Line 270.
DrainDelete ==
    /\ pc = "advance"
    /\ ~reading(enc)
    /\ draining(enc)
    /\ enc' = deleteOld(enc)
    /\ pc' = "drain"
    /\ UNCHANGED dec

\* Lines 273-280.
DrainInsert ==
    /\ pc = "drain"
    /\ enc' = drainInsert(enc)
    /\ pc' = "advance"
    /\ UNCHANGED dec

\* Lines 282-285: until the length of the string to be processed is zero.
LoopEnd ==
    /\ pc = "advance"
    /\ ~reading(enc)
    /\ ~draining(enc)
    /\ pc' = IF enc.dataLen <= 0 THEN "flush" ELSE "clamp"
    /\ UNCHANGED <<enc, dec>>

\* Lines 287-293: send the remaining code and return.
FinalFlush ==
    /\ pc = "flush"
    /\ enc' = finalFlush(enc)
    /\ pc' = "compressed"
    /\ UNCHANGED dec

\* decompressed := Decompress(compressed), as the round-trip tests call it.
CallDecompress ==
    /\ pc = "compressed"
    /\ dec' = decompressEntry(enc.dst)
    /\ pc' = "decompress"
    /\ UNCHANGED enc

\* Lines 298-312 of Decompress.
DecompressBegin ==
    /\ pc = "decompress"
    /\ dec' = decompressInit(dec)
    /\ pc' = "decode"
    /\ UNCHANGED enc

\* One iteration of the decoding loop; the break statements return.
DecodeStep ==
    /\ pc = "decode"
    /\ dec' = decodeLoop(dec)
    /\ pc' = IF dec'.ret THEN "done" ELSE "decode"
    /\ UNCHANGED enc

\* ------------------------------------------------------------ per token
\* Lines 187-221 in one step.
CompressSetup ==
    /\ pc = "compress"
    /\ Len(enc.src) # 0
    /\ enc' = compressSetup(enc)
    /\ pc' = "clamp"
    /\ UNCHANGED dec

\* Lines 224-285 in one step: one iteration of the encoding loop.
EncodeIteration ==
    /\ pc = "clamp"
    /\ enc' = encodeIteration(enc)
    /\ pc' = IF enc'.dataLen <= 0 THEN "flush" ELSE "clamp"
    /\ UNCHANGED dec

Next ==
    \/ CompressEmpty
    \/ CompressSetup
    \/ EncodeIteration
    \/ FinalFlush
    \/ CallDecompress
    \/ DecompressBegin
    \/ DecodeStep

\* Compress, one token per step, and Decompress on its output.
Spec == Init /\ [][Next]_vars

\* ------------------------------------------------------------ per call
RECURSIVE runUntil(_, _)
\* The encoding loop run from e until srcPos has reached pos.
runUntil(e, pos) ==
    IF e.srcPos >= pos \/ e.dataLen <= 0 THEN e
    ELSE runUntil(encodeIteration(e), pos)

\* Compress(input) at the top of the first iteration of its encoding loop
\* that finds srcPos >= pos.
Resumed(input, pos) == runUntil(compressSetup(compressEntry(input)), pos)

\* Where a call under way is taken up: as s is about to arrive at n - 2f,
\* the oldest string in the tree, and as it is about to arrive at the
\* strings that overlap the first bytes of the input.
ResumePoints == {n - 2 * f, n - f \div 3}

\* Compress is called on a short input or on a test input of up to some
\* hundred bytes, or is under way on a wrapping input, or is about to send
\* the last letter before the space of LettersTwice.
InitCalls ==
    \/ \E input \in SeqsUpTo(Alphabet, MaxCallLen)
                        \cup (TestInputs \ {highly_repetitive}) :
          CallCompress(input)
    \/ \E input \in WrapInputs, pos \in ResumePoints :
          /\ pc = "clamp"
          /\ enc = Resumed(input, pos)
          /\ dec = decompressEntry(<<>>)
    \/ /\ pc = "clamp"
       /\ enc = Resumed(LettersTwice, Len(LettersTwice) - 1)
       /\ dec = decompressEntry(<<>>)

NextCalls ==
    \/ CompressEmpty
    \/ CompressBegin
    \/ InitInsert
    \/ InsertWhole
    \/ Clamp
    \/ EmitToken
    \/ ReadDelete
    \/ ReadByte
    \/ ReadInsert
    \/ DrainDelete
    \/ DrainInsert
    \/ LoopEnd
    \/ FinalFlush

\* Compress, one insertNode or deleteNode call per step.
SpecCalls == InitCalls /\ [][NextCalls]_vars

\* ------------------------------------------------------------ Decompress alone
\* Bytes of the arbitrary streams: control bytes of references only, of one
\* literal, of literals only; a letter.
DecAlphabet == {0, 1, 65, 255}

DecInputs == SeqsUpTo(DecAlphabet, MaxDecLen)

\* Decompress(y) called on an arbitrary stream y; Compress is not running.
InitDec ==
    /\ pc = "decompress"
    /\ enc = compressEntry(<<>>)
    /\ \E y \in DecInputs : dec = decompressEntry(y)

NextDec == DecompressBegin \/ DecodeStep

SpecDec == InitDec /\ [][NextDec]_vars

\* ------------------------------------------------------------ claims
IsPrefix(a, b) == Len(a) <= Len(b) /\ \A k \in 1..Len(a) : a[k] = b[k]

\* C1: round trip.  When Decompress has returned on the output of
\* Compress(src), its output equals src byte for byte: for the empty input,
\* single bytes, every input over Alphabet up to MaxLen, the test inputs and
\* inputs longer than the ring buffer.
C1_RoundTrip == pc = "done" => dec.src = enc.dst /\ dec.dst = enc.src

\* C1's case: a round trip has ended for an input that was sent as a
\* reference.
C1_Witness ==
    /\ pc = "done"
    /\ \E k \in 1..Len(enc.tokens) : ~enc.tokens[k].literal
    /\ Len(enc.dst) < Len(enc.src)
    /\ dec.dst = enc.src

\* C3: highly repetitive input compresses below 10%.  For the input of
\* 1000 repeats of one byte, the output of Compress is at most a tenth and
\* at least a hundredth of the input: at most 100 bytes.
C3_RepetitiveRatio ==
    (pc = "compressed" /\ enc.src = highly_repetitive)
        => /\ 10 * Len(enc.dst) <= Len(enc.src)
           /\ 100 * Len(enc.dst) >= Len(enc.src)

CeilDiv(a, b) == (a + b - 1) \div b

NoRepetition(x) == \A j, k \in 1..Len(x) : x[j] = x[k] => j = k

RECURSIVE Pow2(_)
Pow2(k) == IF k = 0 THEN 1 ELSE 2 * Pow2(k - 1)

Min(a, b) == IF a < b THEN a ELSE b

RECURSIVE LiteralStream(_)
\* x sent as literals only: per 8 bytes, a control byte with one bit set
\* for each of them, then the bytes.
LiteralStream(x) ==
    IF Len(x) = 0 THEN <<>>
    ELSE LET k == Min(8, Len(x))
         IN <<Pow2(k) - 1>> \o SubSeq(x, 1, k)
                \o LiteralStream(SubSeq(x, k + 1, Len(x)))

\* C4: bounded expansion.  The output of Compress is never longer than
\* len(x) + ceil(len(x)/8), and an input in which no byte occurs twice is
\* sent as literals only, one control byte per 8 of them.
C4_BoundedExpansion ==
    pc = "compressed" =>
        /\ Len(enc.dst) <= Len(enc.src) + CeilDiv(Len(enc.src), 8)
        /\ NoRepetition(enc.src) => enc.dst = LiteralStream(enc.src)

\* C4's case: the 26 letters were sent as 26 literals in 4 groups, the
\* 8 bytes of binary_data as one full group.
C4_Witness ==
    /\ pc = "compressed"
    /\ \/ enc.src = no_repetition /\ Len(enc.dst) = 30
       \/ enc.src = binary_data /\ Len(enc.dst) = 9

RECURSIVE SumRange(_, _, _)
\* The bytes the tokens a..b advanced the window by.
SumRange(toks, a, b) ==
    IF a > b THEN 0
    ELSE IF a = b THEN toks[a].advance
    ELSE LET m == (a + b) \div 2
         IN SumRange(toks, a, m) + SumRange(toks, m + 1, b)

\* The bytes the first k tokens advanced the window by.
SumAdvance(toks, k) == SumRange(toks, 1, k)

RECURSIVE ControlByte(_, _)
\* The control byte of the group g: bit i-1 set iff g[i] is one byte long.
ControlByte(g, k) ==
    IF k = 0 THEN 0
    ELSE (IF Len(g[k].code) = 1 THEN Pow2(k - 1) ELSE 0) + ControlByte(g, k - 1)

RECURSIVE Codes(_, _)
Codes(g, k) == IF k = 0 THEN <<>> ELSE Codes(g, k - 1) \o g[k].code

RECURSIVE Groups(_)
\* The stream of the tokens toks: groups of 8 tokens, the last of 1 to 8,
\* each a control byte and its tokens.
Groups(toks) ==
    IF Len(toks) = 0 THEN <<>>
    ELSE LET k == Min(8, Len(toks))
             g == SubSeq(toks, 1, k)
         IN <<ControlByte(g, k)>> \o Codes(g, k)
                \o Groups(SubSeq(toks, k + 1, Len(toks)))

\* C5: token stream format.  For a non-empty input the output of Compress
\* is the sequence of groups of the tokens sent, 8 to a group and 1 to 8 in
\* the last, each group a control byte followed by its tokens; bit i of the
\* control byte is 1 iff token i is a literal, one verbatim byte of the
\* input, and 0 iff it is a reference, the unused high bits are 0; a
\* reference to position P with length L is the two bytes
\* P mod 256, (P div 256) * 16 + (L - 3).
C5_StreamFormat ==
    (pc = "compressed" /\ Len(enc.src) > 0) =>
        /\ Len(enc.tokens) > 0
        /\ enc.dst = Groups(enc.tokens)
        /\ \A k \in 1..Len(enc.tokens) :
              LET t == enc.tokens[k]
              IN IF t.literal
                 THEN t.code = <<enc.src[SumAdvance(enc.tokens, k - 1) + 1]>>
                 ELSE t.code = <<t.matchPosition % 256,
                                 (t.matchPosition \div 256) * 16
                                     + (t.matchLength - 3)>>

\* C5's case: more than one group, the last one not full, literals and
\* references, a reference to a position above 255.
C5_Witness ==
    /\ pc = "compressed"
    /\ Len(enc.tokens) > 8
    /\ Len(enc.tokens) % 8 # 0
    /\ \E k \in 1..Len(enc.tokens) : enc.tokens[k].literal
    /\ \E k \in 1..Len(enc.tokens) :
          ~enc.tokens[k].literal /\ enc.tokens[k].matchPosition > 255

\* C6: reference lengths.  Every reference sent encodes a match length L
\* with 3 <= L <= 18 in its 4-bit field L - 3, and a step whose clamped
\* match length is 0, 1 or 2 sends a single literal and advances the window
\* by exactly one byte: s and r stand at the sum of the tokens' lengths.
C6_ReferenceLengths ==
    /\ \A k \in 1..Len(enc.tokens) :
          LET t == enc.tokens[k]
          IN /\ ~t.literal =>
                   /\ t.matchLength >= threshold + 1 /\ t.matchLength <= f
                   /\ Len(t.code) = 2
                   /\ t.code[2] % 16 = t.matchLength - 3
                   /\ t.advance = t.matchLength
             /\ t.matchLength \in 0..threshold =>
                   t.literal /\ Len(t.code) = 1 /\ t.advance = 1
    /\ pc \in {"clamp", "flush"} =>
          /\ enc.s = SumAdvance(enc.tokens, Len(enc.tokens)) % n
          /\ enc.r = (n - f + SumAdvance(enc.tokens, Len(enc.tokens))) % n

\* C6's case: a literal was sent for a clamped match of length 2 and a
\* reference for a match of length 3, and the window has advanced.
C6_Witness ==
    /\ pc \in {"clamp", "flush"}
    /\ \E k \in 1..Len(enc.tokens) :
          enc.tokens[k].literal /\ enc.tokens[k].matchLength = threshold
    /\ \E k \in 1..Len(enc.tokens) :
          ~enc.tokens[k].literal /\ enc.tokens[k].matchLength = threshold + 1

\* The reference Decompress is about to copy in state d, as <<position,
\* j>> (j + 1 bytes are copied), or <<>> when its next token is none.
NextReference(d) ==
    LET d1 == loadFlags(d)
    IN IF d1.ret \/ BitAnd(d1.flags, 1) = 1 \/ d1.srcPos + 1 >= Len(d1.src)
       THEN <<>>
       ELSE <<BitOr(d1.src[d1.srcPos + 1],
                    BitAnd(d1.src[d1.srcPos + 2], 240) * 16),
              BitAnd(d1.src[d1.srcPos + 2], 15) + threshold>>

\* Position q holds the filler or an output byte when cnt output bytes
\* have been written and the write cursor is at rr.
AlreadyWritten(q, rr, cnt) == q < n - f \/ (rr - 1 - q) % n < cnt

\* C7: no forward references.  When Decompress runs on the output of
\* Compress, every position it reads while copying a reference holds the
\* initial filler (positions below n - f), an earlier output byte or an
\* earlier byte of the same copy.
C7_NoForwardReference ==
    (pc = "decode" /\ NextReference(dec) # <<>>) =>
        LET ref == NextReference(dec)
        IN \A k \in 0..ref[2] :
              AlreadyWritten((ref[1] + k) % n, (dec.r + k) % n,
                             Len(dec.dst) + k)

\* C7's case: Decompress is about to copy a reference that starts in
\* [n - f, n) and runs into the bytes it writes itself.
C7_Witness ==
    /\ pc = "decode"
    /\ NextReference(dec) # <<>>
    /\ NextReference(dec)[1] >= n - f
    /\ NextReference(dec)[1] + NextReference(dec)[2] >= dec.r
    /\ dec.r >= n - f

\* The root of the tree of the strings that begin with byte b.
Root(b) == n + 1 + b

\* The F bytes at position p.
Key(sp0, p) == [k \in 1..f |-> sp0.textBuf[p + k - 1]]

RECURSIVE PrefixFrom(_, _, _, _)
PrefixFrom(sp0, a, b, k) ==
    IF k < f /\ sp0.textBuf[a + k] = sp0.textBuf[b + k]
    THEN PrefixFrom(sp0, a, b, k + 1)
    ELSE k

\* The length of the common prefix of the F-byte strings at a and b.
CommonPrefix(sp0, a, b) == PrefixFrom(sp0, a, b, 0)

\* The string at a is lexicographically less than the string at b.
LexLess(sp0, a, b) ==
    LET k == CommonPrefix(sp0, a, b)
    IN k < f /\ sp0.textBuf[a + k] < sp0.textBuf[b + k]

\* The child links that leave node or root p.
ChildLinks(sp0, p) ==
    (IF p < n THEN {sp0.lchild[p], sp0.rchild[p]} ELSE {sp0.rchild[p]})
        \ {nil}

RECURSIVE ReachFrom(_, _, _)
ReachFrom(sp0, frontier, seen) ==
    IF frontier = {} THEN seen
    ELSE LET next == (UNION {ChildLinks(sp0, p) : p \in frontier}) \ seen
         IN IF next \subseteq 0..(n - 1)
            THEN ReachFrom(sp0, next, seen \cup next)
            ELSE seen \cup next

\* The roots of the trees that are not empty.
Roots(sp0) == {q \in Root(0)..Root(255) : sp0.rchild[q] # nil}

\* The positions that the trees hold: what the child links reach from the
\* 256 roots.
Held(sp0) == ReachFrom(sp0, Roots(sp0), {})

\* The parent links par with those of the positions in S set to nil.
Unlink(par, S) == [p \in S |-> nil] @@ par

\* No position has a parent (the entry at nil is scratch space).
NoParent == [p \in 0..n |-> nil]

\* parent, lchild and rchild agree on the positions held: a child's parent
\* link points back, a node is a child of its parent, and no node is both
\* children of one node.
LinksConsistent(sp0, roots, held) ==
    /\ held \subseteq 0..(n - 1)
    /\ \A q \in roots : sp0.parent[sp0.rchild[q]] = q
    /\ \A p \in held :
          /\ sp0.lchild[p] # nil => sp0.parent[sp0.lchild[p]] = p
          /\ sp0.rchild[p] # nil => sp0.parent[sp0.rchild[p]] = p
          /\ sp0.lchild[p] # nil => sp0.lchild[p] # sp0.rchild[p]
          /\ LET q == sp0.parent[p]
             IN /\ q \in held \/ q \in Root(0)..Root(255)
                /\ p \in ChildLinks(sp0, q)

RECURSIVE Inorder(_, _)
\* The positions of the subtree at p, left to right.
Inorder(sp0, p) ==
    IF p = nil THEN <<>>
    ELSE Inorder(sp0, sp0.lchild[p]) \o <<p>> \o Inorder(sp0, sp0.rchild[p])

\* The tree of byte b holds strings that begin with b, in increasing
\* lexicographic order from left to right.
Ordered(sp0, root) ==
    LET q == Inorder(sp0, sp0.rchild[root])
    IN /\ \A k \in 1..Len(q) : Root(sp0.textBuf[q[k]]) = root
       /\ \A k \in 1..(Len(q) - 1) : LexLess(sp0, q[k], q[k + 1])

\* The trees are valid: the links agree, parent[p] is nil exactly for the
\* positions held by no tree (the positions held have a parent, and
\* without their links no position has one), and each tree is ordered.
TreesValid(sp0) ==
    LET roots == Roots(sp0)
        held  == ReachFrom(sp0, roots, {})
    IN /\ LinksConsistent(sp0, roots, held)
       /\ \A p \in held : sp0.parent[p] # nil
       /\ Unlink(sp0.parent, held \cup {nil}) = NoParent
       /\ \A q \in roots : Ordered(sp0, q)

\* C9: the match index.  After initState and after every insertNode and
\* deleteNode call of Compress, each of the 256 trees is a binary search
\* tree (what the roots reach is a forest: every position held has one
\* parent and is one of its children) ordered lexicographically by the
\* F-byte strings now at its positions, the links agree, each position is
\* in at most one tree, and parent[p] = nil exactly for the positions in no
\* tree.
C9_MatchIndex ==
    (pc # "compress" /\ Len(enc.src) > 0) => TreesValid(enc.sp)

\* C9's case: deleteNode(s) has just returned and the in-order predecessor
\* q of s stands in the slot of s, below a parent and above both subtrees
\* of s.
C9_Witness ==
    /\ pc \in {"read", "drain"}
    /\ enc.sp.parent[enc.s] = nil
    /\ enc.sp.lchild[enc.s] # nil
    /\ enc.sp.rchild[enc.s] # nil
    /\ LET q == enc.sp.parent[enc.sp.rchild[enc.s]]
       IN /\ q \in Held(enc.sp)
          /\ enc.sp.rchild[q] = enc.sp.rchild[enc.s]
          /\ enc.sp.lchild[q] # nil
          /\ LexLess(enc.sp, q, enc.s)

\* The position that the insertNode call of the next step inserts, or nil
\* when the next step calls none.
NextInsert ==
    IF pc = "init_insert" THEN (IF enc.i <= f THEN enc.r - enc.i ELSE enc.r)
    ELSE IF pc = "read_insert" THEN enc.r
    ELSE IF pc = "drain" /\ enc.dataLen - 1 > 0 THEN (enc.r + 1) % n
    ELSE nil

RECURSIVE WalkFrom(_, _, _)
\* The nodes the downward walk for the string at r0 visits from p on: left
\* of a greater string, right of a smaller one, down to an absent child or
\* to a node with the same F bytes.
WalkFrom(sp0, r0, p) ==
    IF p = nil THEN <<>>
    ELSE IF CommonPrefix(sp0, r0, p) = f THEN <<p>>
    ELSE <<p>> \o WalkFrom(sp0, r0, IF LexLess(sp0, r0, p)
                                    THEN sp0.lchild[p] ELSE sp0.rchild[p])

\* C10: what insertNode reports.  After insertNode(r), matchLength is in
\* 0..F and is the largest common-prefix length, capped at F, of the string
\* at r with the strings of the nodes the downward walk visited; it is 0
\* iff the tree of r's first byte was empty; when it is positive,
\* matchPosition is the first node visited that attains it, is not r, and
\* textBuf agrees at matchPosition + i and r + i for all i < matchLength.
C10_MatchReport ==
    NextInsert # nil =>
        LET r0   == NextInsert
            root == Root(enc.sp.textBuf[r0])
            walk == WalkFrom(enc.sp, r0, enc.sp.rchild[root])
            post == insertNode(enc.sp, r0)
            ml   == post.matchLength
            mp   == post.matchPosition
        IN /\ ml \in 0..f
           /\ \A k \in 1..Len(walk) : CommonPrefix(enc.sp, r0, walk[k]) <= ml
           /\ ml = 0 <=> enc.sp.rchild[root] = nil
           /\ ml > 0 =>
                 /\ \E k \in 1..Len(walk) :
                       /\ walk[k] = mp
                       /\ CommonPrefix(enc.sp, r0, mp) = ml
                       /\ \A j \in 1..(k - 1) :
                             CommonPrefix(enc.sp, r0, walk[j]) < ml
                 /\ mp # r0
                 /\ \A k \in 0..(ml - 1) :
                       post.textBuf[mp + k] = post.textBuf[r0 + k]

\* C10's case: insertNode is about to walk over three nodes or more, two
\* of which share the longest match, which is shorter than F.
C10_Witness ==
    /\ NextInsert # nil
    /\ LET r0   == NextInsert
           walk == WalkFrom(enc.sp, r0,
                            enc.sp.rchild[Root(enc.sp.textBuf[r0])])
           ml   == insertNode(enc.sp, r0).matchLength
       IN /\ Len(walk) >= 3
          /\ ml < f
          /\ Cardinality({k \in 1..Len(walk) :
                             CommonPrefix(enc.sp, r0, walk[k]) = ml}) >= 2

\* C11: replace on full match.  When the downward walk of insertNode(r)
\* ends at a node p whose F bytes equal those at r (the first such node:
\* insertNode reports it with length F), r takes the place of p: r has the
\* parent and the two children p had, the child slot of that parent that
\* held p holds r and its other slot is as before, the children of p have
\* r for parent, parent[p] is nil, and the trees hold what they held with r
\* for p.  Otherwise r is a leaf below the last node of the walk (the root
\* when the tree was empty) and the trees hold what they held and r.
C11_ReplaceOnFullMatch ==
    NextInsert # nil =>
        LET r0   == NextInsert
            pre  == enc.sp
            root == Root(pre.textBuf[r0])
            walk == WalkFrom(pre, r0, pre.rchild[root])
            last == IF Len(walk) = 0 THEN root ELSE walk[Len(walk)]
            post == insertNode(pre, r0)
        IN /\ r0 \notin Held(pre)
           /\ IF Len(walk) > 0 /\ CommonPrefix(pre, r0, last) = f
              THEN LET pp == pre.parent[last]
                   IN /\ post.matchPosition = last
                      /\ post.matchLength = f
                      /\ post.parent[r0] = pp
                      /\ post.lchild[r0] = pre.lchild[last]
                      /\ post.rchild[r0] = pre.rchild[last]
                      /\ IF pre.rchild[pp] = last
                         THEN /\ post.rchild[pp] = r0
                              /\ pp < n => post.lchild[pp] = pre.lchild[pp]
                         ELSE /\ post.lchild[pp] = r0
                              /\ post.rchild[pp] = pre.rchild[pp]
                      /\ pre.lchild[last] # nil =>
                            post.parent[pre.lchild[last]] = r0
                      /\ pre.rchild[last] # nil =>
                            post.parent[pre.rchild[last]] = r0
                      /\ post.parent[last] = nil
                      /\ Held(post) = (Held(pre) \ {last}) \cup {r0}
              ELSE /\ post.lchild[r0] = nil
                   /\ post.rchild[r0] = nil
                   /\ post.parent[r0] = last
                   /\ r0 \in ChildLinks(post, last)
                   /\ Held(post) = Held(pre) \cup {r0}

\* C11's case: insertNode is about to meet a node with the same F bytes
\* that has a parent node or root and a child, and takes its place.
C11_Witness ==
    /\ NextInsert # nil
    /\ LET r0   == NextInsert
           pre  == enc.sp
           walk == WalkFrom(pre, r0, pre.rchild[Root(pre.textBuf[r0])])
           post == insertNode(pre, r0)
       IN /\ Len(walk) > 0
          /\ CommonPrefix(pre, r0, walk[Len(walk)]) = f
          /\ pre.lchild[walk[Len(walk)]] # nil
          /\ post.parent[pre.lchild[walk[Len(walk)]]] = r0
          /\ post.parent[walk[Len(walk)]] = nil

\* The position that the deleteNode call of the next step deletes, or nil
\* when the next step calls none.
NextDelete ==
    IF pc = "advance" /\ (reading(enc) \/ draining(enc)) THEN enc.s ELSE nil

\* The positions in the tree of the root q.
TreeOf(sp0, q) == ReachFrom(sp0, {q}, {})

\* The in-order predecessor of p among the nodes below it: the last node of
\* its left subtree, left to right.
Predecessor(sp0, p) ==
    LET below == Inorder(sp0, sp0.lchild[p]) IN below[Len(below)]

\* C12: deleteNode.  deleteNode(p) with parent[p] = nil changes nothing of
\* the state; with p in a tree, parent[p] is nil afterwards, every tree
\* holds what it held but p, and when p had two children its in-order
\* predecessor q, the rightmost node of its left subtree, stands in its
\* slot: q has the parent of p, the slot of that parent that held p holds
\* q, and q has the right subtree of p and what is left of its left one.
C12_DeleteNode ==
    NextDelete # nil =>
        LET p    == NextDelete
            pre  == enc.sp
            post == deleteNode(pre, p)
        IN IF pre.parent[p] = nil
           THEN post = pre
           ELSE /\ post.parent[p] = nil
                /\ \A q \in Root(0)..Root(255) :
                      TreeOf(post, q) = TreeOf(pre, q) \ {p}
                /\ p \in Held(pre)
                /\ (pre.lchild[p] # nil /\ pre.rchild[p] # nil) =>
                      LET q  == Predecessor(pre, p)
                          pp == pre.parent[p]
                      IN /\ pre.rchild[q] = nil
                         /\ post.parent[q] = pp
                         /\ IF pre.rchild[pp] = p
                            THEN post.rchild[pp] = q
                            ELSE post.lchild[pp] = q
                         /\ post.rchild[q] = pre.rchild[p]
                         /\ post.parent[pre.rchild[p]] = q
                         /\ post.lchild[q] = IF q = pre.lchild[p]
                                             THEN pre.lchild[q]
                                             ELSE pre.lchild[p]
                         /\ q # pre.lchild[p] =>
                               /\ post.parent[pre.lchild[p]] = q
                               /\ post.rchild[pre.parent[q]] = pre.lchild[q]

\* C12's case: deleteNode is about to delete a node with two children
\* whose predecessor lies deeper than its left child.
C12_Witness ==
    /\ NextDelete # nil
    /\ enc.sp.parent[NextDelete] # nil
    /\ enc.sp.lchild[NextDelete] # nil
    /\ enc.sp.rchild[NextDelete] # nil
    /\ enc.sp.rchild[enc.sp.lchild[NextDelete]] # nil
    /\ deleteNode(enc.sp, NextDelete).parent[NextDelete] = nil

\* Compress has just initialised its window buffer for an input shorter
\* than F bytes: initState and the first read are done, no string is
\* inserted yet.
ShortInputRead == pc = "init_insert" /\ enc.i = 1 /\ Len(enc.src) < f

\* The positions [n-f+len, n) of the window buffer hold the byte c.
RemainderHolds(c) ==
    \A x \in (n - f + Len(enc.src))..(n - 1) : enc.sp.textBuf[x] = c

\* The positions [0, n-f) hold the filler and [n-f, n-f+len) the input.
FillerAndInput ==
    /\ \A x \in 0..(n - f - 1) : enc.sp.textBuf[x] = 32
    /\ \A k \in 1..Len(enc.src) : enc.sp.textBuf[n - f + k - 1] = enc.src[k]

\* C13 as claimed: when the input is shorter than F bytes, after the
\* encoder has initialised its window buffer, positions [0, n-f) hold the
\* filler 0x20, positions [n-f, n-f+len) the input, and the remaining
\* positions [n-f+len, n) the filler 0x20 as well.
C13_RemainderIsFiller ==
    ShortInputRead => FillerAndInput /\ RemainderHolds(32)

\* C13, amended: encoder window initialisation with short input.  When the
\* input is shorter than F bytes, after the encoder has initialised its
\* window buffer, positions [0, n-f) hold the filler 0x20, positions
\* [n-f, n-f+len) the input, and the remaining positions [n-f+len, n)
\* hold 0x00, the value initState cleared the buffer to.
C13_RemainderIsZero ==
    ShortInputRead => FillerAndInput /\ RemainderHolds(0)

\* C13's case: the window buffer is initialised for an input of 1 to F-1
\* bytes, none of them 0x00, and the last position of the ring holds 0x00.
C13_Witness ==
    /\ ShortInputRead
    /\ Len(enc.src) > 0
    /\ \A k \in 1..Len(enc.src) : enc.src[k] # 0
    /\ enc.sp.textBuf[n - f] = enc.src[1]
    /\ enc.sp.textBuf[n - 1] = 0

\* The input positions the window has moved past: the bytes read that are
\* no longer in the lookahead.
Passed == enc.srcPos - enc.dataLen

\* How far the step at hand is from the next position passed: the setup
\* counts its insertNode calls down, an iteration goes from the end of an
\* advance over clamp and emit to an advance with positions left.
Rank ==
    IF pc = "compress" THEN 31
    ELSE IF pc = "init_insert" THEN 6 + (f + 1 - enc.i)
    ELSE IF pc = "read_insert" THEN 5
    ELSE IF pc = "advance" THEN (IF draining(enc) THEN 1 ELSE 4)
    ELSE IF pc \in {"clamp", "flush"} THEN 3
    ELSE IF pc = "emit" THEN 2
    ELSE 0

\* A number that bounds the steps Compress has left.
Variant == 32 * (Len(enc.src) - Passed) + Rank

\* What holds of the cursors and the remaining-length counter in every
\* state of a call on a non-empty input.
Progress ==
    (pc # "compress" /\ Len(enc.src) > 0) =>
        /\ enc.r = (enc.s + n - f) % n
        /\ enc.dataLen \in 0..f
        /\ Passed \in 0..Len(enc.src)
        /\ enc.s = Passed % n
        /\ \A k \in 1..Len(enc.tokens) : enc.tokens[k].advance >= 1
        /\ pc \in {"clamp", "flush"} =>
              Passed = SumAdvance(enc.tokens, Len(enc.tokens))
        /\ pc = "drain" => enc.srcPos = Len(enc.src) /\ enc.dataLen > 0
        /\ pc = "clamp" => enc.dataLen > 0
        /\ pc \in {"flush", "compressed"} =>
              /\ enc.dataLen = 0
              /\ SumAdvance(enc.tokens, Len(enc.tokens)) = Len(enc.src)

\* What a step of the drain loop does to the counter.
DrainCounts ==
    pc = "drain" =>
        /\ enc'.dataLen = enc.dataLen - 1
        /\ enc'.s = (enc.s + 1) % n
        /\ enc'.srcPos = enc.srcPos

\* C14: Compress terminates.  Each iteration of the encoding loop moves s
\* and r on by the length of the token sent, at least 1, and r stays at
\* (s + n - f) mod n; once the input is exhausted the remaining-length
\* counter goes down by one per drained position and never below zero;
\* the loop ends exactly when it is zero, and the token lengths then sum to
\* len(input); every step brings the bound on the steps left down.
C14_Terminates ==
    /\ []Progress
    /\ [][DrainCounts /\ Variant' < Variant /\ Variant' >= 0]_vars

\* C14's case: the loop has ended after draining the lookahead of an input
\* longer than F bytes that was sent with a reference.
C14_Witness ==
    /\ pc = "flush"
    /\ Len(enc.src) > f
    /\ enc.dataLen = 0
    /\ \E k \in 1..Len(enc.tokens) : ~enc.tokens[k].literal
    /\ SumAdvance(enc.tokens, Len(enc.tokens)) = Len(enc.src)

\* C8: empty in, empty out.  Compress of a zero-length input returns a
\* zero-length output and Decompress of a zero-length input returns a
\* zero-length output.
C8_EmptyInEmptyOut ==
    /\ (pc \in {"compressed", "decompress", "decode", "done"} /\ Len(enc.src) = 0)
           => Len(enc.dst) = 0
    /\ (pc = "done" /\ Len(dec.src) = 0) => Len(dec.dst) = 0

\* C8's case: both calls have returned on empty inputs.
C8_Witness ==
    pc = "done" /\ Len(enc.src) = 0 /\ Len(dec.src) = 0 /\ Len(dec.dst) = 0

\* C2: Decompress is total and tolerates truncation.  On every stream y the
\* cursors stay inside the ring buffer and the source, every iteration of
\* the loop takes at least one source byte or returns (so the loop ends),
\* a stream that ends inside a group or inside a reference returns what was
\* decoded before that token, and the output for every prefix of y is a
\* prefix of the output for y.
C2_DecompressTotal ==
    /\ dec.r \in 0..(n - 1)
    /\ DOMAIN dec.textBuf = 0..(n + f - 2)
    /\ dec.srcPos \in 0..Len(dec.src)
    /\ pc = "decode" =>
          LET d == decodeLoop(dec)
          IN /\ d.ret \/ d.srcPos > dec.srcPos
             /\ d.ret => d.dst = dec.dst
             /\ IsPrefix(dec.dst, d.dst)
    /\ pc = "done" =>
          /\ dec.dst = Decompress(dec.src)
          /\ \A k \in 0..Len(dec.src) :
                IsPrefix(Decompress(SubSeq(dec.src, 1, k)), dec.dst)

\* C2's case: a stream that ends between the two bytes of a reference, after
\* a reference was copied, has been decoded to the end.
C2_Witness ==
    /\ pc = "done"
    /\ Len(dec.src) >= 4
    /\ dec.src[1] = 0
    /\ Len(dec.src) % 2 = 0
    /\ Len(dec.dst) > 0

====
